---- MODULE Spec2Model ----
(***************************************************************************)
(* lxmfy ollama-bot: the OllamaAPI dispatch queue with its single worker   *)
(* thread (bot.py) and the OllamaCommands cog that keeps the per-user chat *)
(* state on top of it (cogs/ollama_commands.py).                           *)
(*                                                                         *)
(* Python dicts are functions whose DOMAIN is the set of keys present.     *)
(* Texts are sequences of tokens, so that replace() and strip() are        *)
(* computed rather than assumed.                                           *)
(***************************************************************************)
EXTENDS Integers, Sequences, FiniteSets, TLC

\* ------------------------------------------------------------- bounds
\* Senders of messages, and the threads of the messaging layer that run the
\* handlers.  Under Spec the layer delivers one message at a time, on
\* Dispatcher; under SpecConc two threads run handlers statement by statement.
Users == {"u1", "u2"}
Threads == {"t1", "t2"}
Dispatcher == "t1"
\* Requests submitted to the queue in one behaviour.
MaxReqs == 3
\* Queue(maxsize=queue_size): the capacity the OllamaAPI is constructed with.
QueueSize == 2

\* ------------------------------------------------------------- state
VARIABLES
    chat_states,        \* OllamaCommands.chat_states: sender -> state record
    conversations,      \* OllamaCommands.conversations: sender -> history
    storage,            \* bot.storage: key -> last value set
    save_chat_history,  \* bot.save_chat_history
    request_queue,      \* OllamaAPI.request_queue
    worker,             \* the worker thread: its position and its request
    thr,                \* handler threads: idle, or inside a handler
    nextId,             \* ghost: requests enqueued so far (enqueue order)
    completed           \* ghost: ids whose callback has finished

vars == <<chat_states, conversations, storage, save_chat_history,
          request_queue, worker, thr, nextId, completed>>

\* ------------------------------------------------------------- values
EmptyDict == [k \in {} |-> k]

NoReq ==
    [id |-> 0, endpoint |-> "-", sender |-> "-", content |-> <<>>, fresh |-> FALSE]

Idle ==
    [pc |-> "idle", sender |-> "-", content |-> <<>>, endpoint |-> "-", fresh |-> FALSE]

\* ctx.content of a /chat command, of a free-form message, of an /ask command
ChatInputs == {<<"chat">>, <<"chat", " ">>, <<"chat", " ", "hi">>}
MessageInputs == {<<"hi">>}
AskInputs == {<<"why">>}

\* What the backend call of the worker produces: requests.post or
\* response.json() raises, or the JSON body is
\*   error      {"error": ...}
\*   response   {"response": "hello"}
\*   message    {"message": {"content": "hello"}}
\*   badmessage {"message": {}}
\*   other      {}
Outcomes == {"raise", "error", "response", "message", "badmessage", "other"}
ReplyText == <<"hello">>
Placeholder == <<"Unexpected response format">>

StillProcessing == "Still processing your last request, please wait..."
NeedMessage == "Please provide a message for the chat!"
ResetDone == "Chat conversation has been reset!"
NoConversation == "No active conversation to reset."

\* ------------------------------------------------------------- texts
RECURSIVE ReplaceFirst(_, _)
\* str.replace(w, "", 1)
ReplaceFirst(s, w) ==
    IF s = <<>> THEN <<>>
    ELSE IF Head(s) = w THEN Tail(s)
    ELSE <<Head(s)>> \o ReplaceFirst(Tail(s), w)

RECURSIVE LStrip(_)
LStrip(s) ==
    IF s # <<>> /\ Head(s) = " " THEN LStrip(Tail(s)) ELSE s

RECURSIVE RStrip(_)
RStrip(s) ==
    IF s # <<>> /\ s[Len(s)] = " " THEN RStrip(SubSeq(s, 1, Len(s) - 1)) ELSE s

\* str.strip()
Strip(s) == RStrip(LStrip(s))

\* chat(): content = ctx.content.replace("chat", "", 1).strip()
ChatContent(raw) == Strip(ReplaceFirst(raw, "chat"))


\* ------------------------------------------------------------- the cog
DefaultState(sender) ==
    [chat_mode |-> FALSE, message_count |-> 0, address |-> sender,
     waiting_response |-> FALSE]

\* The memory of the cog and the storage behind it, as one value that the
\* steps of a handler pass along.
Mem == [cs |-> chat_states, cv |-> conversations, st |-> storage]

SetMem(m) ==
    /\ chat_states' = m.cs
    /\ conversations' = m.cv
    /\ storage' = m.st

\* save_states(): storage.set keeps the value given at the call
SaveStates(m) ==
    LET s1 == ("chat_states" :> m.cs) @@ m.st
    IN  [m EXCEPT !.st = IF save_chat_history
                         THEN ("conversations" :> m.cv) @@ s1
                         ELSE s1]

\* update_chat_state(sender, increment_count)
UpdateChatState(m, sender, increment_count) ==
    LET c1 == IF sender \in DOMAIN m.cs
              THEN m.cs
              ELSE m.cs @@ (sender :> DefaultState(sender))
        c2 == IF increment_count
              THEN [c1 EXCEPT ![sender].message_count = @ + 1]
              ELSE c1
    IN  SaveStates([m EXCEPT !.cs = c2])

\* if sender not in self.conversations: self.conversations[sender] = []
EnsureConversation(cv, sender) ==
    IF sender \in DOMAIN cv THEN cv ELSE cv @@ (sender :> <<>>)

\* self.conversations[sender].append({"role": role, "content": content})
AppendTurn(cv, sender, role, content) ==
    [cv EXCEPT ![sender] = Append(@, [role |-> role, content |-> content])]

\* the role handle_response gives the turn it appends
ResponseRole == "assistant"

\* fault injection: the "message" key is not looked at
ExtractMessageOneKey(outcome) ==
    IF outcome = "response" THEN ReplyText ELSE Placeholder

\* handle_response: the message taken from a response without "error"
ExtractMessage(outcome) ==
    IF outcome \in {"response", "message"} THEN ReplyText ELSE Placeholder

\* handle_response(ctx, response) on memory m; replyFails says whether the
\* ctx.reply it makes raises.  The result is the memory after it, with
\* raised: whether it ended by an exception.
HandleResponse(m, sender, outcome, replyFails) ==
    IF outcome = "error"
    THEN [cs |-> m.cs, cv |-> m.cv, st |-> m.st, raised |-> replyFails]
    ELSE IF outcome = "badmessage"
    THEN [cs |-> m.cs, cv |-> m.cv, st |-> m.st, raised |-> TRUE]
    ELSE
        LET message == ExtractMessage(outcome)
            m1 == IF sender \in DOMAIN m.cv
                  THEN SaveStates([m EXCEPT !.cv =
                           AppendTurn(m.cv, sender, ResponseRole, message)])
                  ELSE m
            m2 == IF sender \in DOMAIN m1.cs
                  THEN SaveStates([m1 EXCEPT !.cs[sender].waiting_response = FALSE])
                  ELSE m1
        IN  [cs |-> m2.cs, cv |-> m2.cv, st |-> m2.st, raised |-> replyFails]

\* fault injection: the in-flight guard is missing
ChatIsWaitingUnguarded(sender) == FALSE

\* chat() line 82 / process_message() line 153: the in-flight guard
ChatIsWaiting(sender) ==
    sender \in DOMAIN chat_states /\ chat_states[sender].waiting_response

\* process_message() line 152
InChatMode(sender) ==
    sender \in DOMAIN chat_states /\ chat_states[sender].chat_mode

\* chat() lines 86-91
ChatSetWaiting(m, sender) ==
    LET m1 == IF sender \in DOMAIN m.cs THEN m ELSE UpdateChatState(m, sender, FALSE)
    IN  SaveStates([m1 EXCEPT !.cs[sender].chat_mode = TRUE,
                              !.cs[sender].waiting_response = TRUE])

\* chat() lines 93-95
ChatEnsureConversation(m, sender) ==
    IF sender \in DOMAIN m.cv
    THEN m
    ELSE SaveStates([m EXCEPT !.cv = EnsureConversation(m.cv, sender)])

\* chat() lines 100-101, after the reply that asks for a message
ChatNoContent(m, sender) ==
    SaveStates([m EXCEPT !.cs[sender].waiting_response = FALSE])

\* _handle_chat_message() lines 110-114
AppendUserTurn(m, sender, content) ==
    SaveStates([m EXCEPT !.cv =
        AppendTurn(EnsureConversation(m.cv, sender), sender, "user", content)])

\* what the handler does once _queue_request has returned:
\* _handle_chat_message() line 126, ask() nothing
AfterPut(m, endpoint, sender) ==
    IF endpoint = "chat" THEN UpdateChatState(m, sender, TRUE) ELSE m

\* fault injection: reset() leaves chat_mode as it is
ResetConversationKeepMode(m, sender) ==
    LET m1 == [m EXCEPT !.cv = [u \in DOMAIN m.cv \ {sender} |-> m.cv[u]]]
        m2 == IF sender \in DOMAIN m1.cs
              THEN [m1 EXCEPT !.cs[sender].waiting_response = FALSE]
              ELSE m1
    IN  IF save_chat_history THEN SaveStates(m2) ELSE m2

\* reset() lines 139-144
ResetConversation(m, sender) ==
    LET m1 == [m EXCEPT !.cv = [u \in DOMAIN m.cv \ {sender} |-> m.cv[u]]]
        m2 == IF sender \in DOMAIN m1.cs
              THEN [m1 EXCEPT !.cs[sender].chat_mode = FALSE,
                              !.cs[sender].waiting_response = FALSE]
              ELSE m1
    IN  IF save_chat_history THEN SaveStates(m2) ELSE m2

\* the reply of chat() to ctx, "-" when it sends none
ChatReply(sender, raw) ==
    IF ChatIsWaiting(sender) THEN StillProcessing
    ELSE IF ChatContent(raw) = <<>> THEN NeedMessage
    ELSE "-"

\* the reply of process_message() to ctx, "-" when it sends none
MessageReply(sender) ==
    IF InChatMode(sender) /\ ChatIsWaiting(sender) THEN StillProcessing ELSE "-"

\* the reply of reset() to ctx
ResetReply(sender) ==
    IF sender \in DOMAIN conversations THEN ResetDone ELSE NoConversation

\* the user has no turns in a conversation
NoHistory(sender) ==
    sender \notin DOMAIN conversations \/ conversations[sender] = <<>>

\* ------------------------------------------------------------- the queue
\* fault injection: a LIFO queue
QueueGetNewest(q) == Len(q)

\* Queue.get(): the position of the item taken
QueueGetIndex(q) == 1

QueueRemove(q, i) == SubSeq(q, 1, i - 1) \o SubSeq(q, i + 1, Len(q))

\* Queue.put() blocks while the queue holds maxsize items
QueueHasRoom == Len(request_queue) < QueueSize

\* handlers that have not returned: each has a request to put
InHandler == {t \in Threads : thr[t].pc # "idle"}

\* model bound: requests enqueued or about to be
CanSubmit == nextId + Cardinality(InHandler) < MaxReqs

\* a completion or a reset for sender ends the undisturbed round trip of
\* every other request of that sender (ghost)
Disturb(r, sender) ==
    IF r.sender = sender THEN [r EXCEPT !.fresh = FALSE] ELSE r

DisturbQueue(q, sender) == [i \in DOMAIN q |-> Disturb(q[i], sender)]

DisturbThreads(th, sender) == [t \in Threads |-> Disturb(th[t], sender)]

\* ------------------------------------------------------------- Init
\* OllamaCommands.__init__ on an empty storage; OllamaAPI.__init__ has
\* started the worker; create_bot sets save_chat_history = SAVE_CHAT_HISTORY.
Init ==
    /\ chat_states = EmptyDict
    /\ conversations = EmptyDict
    /\ storage = EmptyDict
    /\ save_chat_history = FALSE
    /\ request_queue = <<>>
    /\ worker = [pc |-> "get", cur |-> NoReq, calls |-> 0]
    /\ thr = [t \in Threads |-> Idle]
    /\ nextId = 0
    /\ completed = {}

\* ------------------------------------------------------------- handlers
\* bot.debug is off (BasicCommands.__init__), so the handlers send no
\* "Processing ..." reply before they submit; Queue.put() without a timeout
\* does not raise, so the except branches of ask() and _handle_chat_message()
\* are not entered.
ChatRequest(sender, content, fresh) ==
    [id |-> 0, endpoint |-> "chat", sender |-> sender, content |-> content,
     fresh |-> fresh]

GenerateRequest(sender, prompt) ==
    [id |-> 0, endpoint |-> "generate", sender |-> sender, content |-> prompt,
     fresh |-> FALSE]

\* a handler that cannot go on: inside Queue.put() on a full queue
Blocked(req) ==
    [pc |-> "put", sender |-> req.sender, content |-> req.content,
     endpoint |-> req.endpoint, fresh |-> req.fresh]

\* Queue.put(item) when there is room, with the ghost id of the item
Enqueue(req) ==
    /\ request_queue' = Append(request_queue, [req EXCEPT !.id = nextId + 1])
    /\ nextId' = nextId + 1

\* bot.ollama.chat / generate with a callback -> _queue_request, called by a
\* handler whose memory so far is m: the request is put and the handler runs
\* to its end, or the handler blocks in put() on a full queue.
QueueRequest(t, req, m) ==
    /\ CanSubmit
    /\ IF QueueHasRoom
       THEN /\ Enqueue(req)
            /\ SetMem(AfterPut(m, req.endpoint, req.sender))
            /\ thr' = [thr EXCEPT ![t] = Idle]
       ELSE /\ thr' = [thr EXCEPT ![t] = Blocked(req)]
            /\ SetMem(m)
            /\ UNCHANGED <<request_queue, nextId>>
    /\ UNCHANGED <<save_chat_history, worker, completed>>

\* the /chat command, as one step of the dispatcher
Chat(t, sender, raw) ==
    /\ thr[t].pc = "idle"
    /\ LET reply == ChatReply(sender, raw)
           m1 == ChatEnsureConversation(ChatSetWaiting(Mem, sender), sender)
       IN  IF reply = StillProcessing
           THEN UNCHANGED vars
           ELSE IF reply = NeedMessage
           THEN /\ SetMem(ChatNoContent(m1, sender))
                /\ UNCHANGED <<save_chat_history, request_queue, worker, thr,
                               nextId, completed>>
           ELSE QueueRequest(t,
                    ChatRequest(sender, ChatContent(raw), NoHistory(sender)),
                    AppendUserTurn(m1, sender, ChatContent(raw)))

\* setup().handle_message -> process_message: a message without "/"
Message(t, sender, raw) ==
    /\ thr[t].pc = "idle"
    /\ IF InChatMode(sender) /\ ~ChatIsWaiting(sender)
       THEN QueueRequest(t, ChatRequest(sender, raw, FALSE),
                         AppendUserTurn(Mem, sender, raw))
       ELSE UNCHANGED vars

\* the /ask command: generate(ctx.content, callback)
Ask(t, sender, raw) ==
    /\ thr[t].pc = "idle"
    /\ QueueRequest(t, GenerateRequest(sender, raw), Mem)

\* fault injection: the /reset command leaves waiting_response as it is
ResetKeepWaiting(t, sender) ==
    /\ thr[t].pc = "idle"
    /\ IF sender \in DOMAIN conversations
       THEN /\ SetMem([ResetConversation(Mem, sender) EXCEPT !.cs = [u \in DOMAIN @ |->
                          [@[u] EXCEPT !.waiting_response =
                              chat_states[u].waiting_response]]])
            /\ request_queue' = DisturbQueue(request_queue, sender)
            /\ thr' = DisturbThreads(thr, sender)
            /\ worker' = [worker EXCEPT !.cur = Disturb(@, sender)]
            /\ UNCHANGED <<save_chat_history, nextId, completed>>
       ELSE UNCHANGED vars

\* the /reset command
Reset(t, sender) ==
    /\ thr[t].pc = "idle"
    /\ IF sender \in DOMAIN conversations
       THEN /\ SetMem(ResetConversation(Mem, sender))
            /\ request_queue' = DisturbQueue(request_queue, sender)
            /\ thr' = DisturbThreads(thr, sender)
            /\ worker' = [worker EXCEPT !.cur = Disturb(@, sender)]
            /\ UNCHANGED <<save_chat_history, nextId, completed>>
       ELSE UNCHANGED vars

\* a handler inside Queue.put(): the put is done once the queue has room,
\* _queue_request returns and the handler runs to its end
PutResume(t) ==
    /\ thr[t].pc = "put"
    /\ QueueHasRoom
    /\ Enqueue([id |-> 0, endpoint |-> thr[t].endpoint, sender |-> thr[t].sender,
                content |-> thr[t].content, fresh |-> thr[t].fresh])
    /\ SetMem(AfterPut(Mem, thr[t].endpoint, thr[t].sender))
    /\ thr' = [thr EXCEPT ![t] = Idle]
    /\ UNCHANGED <<save_chat_history, worker, completed>>

\* ------------------------------------------------------------- the worker
\* request_queue.get(), then requests.post is under way
WorkerGet ==
    /\ worker.pc = "get"
    /\ request_queue # <<>>
    /\ LET i == QueueGetIndex(request_queue)
       IN  /\ worker' = [pc |-> "post", cur |-> request_queue[i], calls |-> 0]
           /\ request_queue' = QueueRemove(request_queue, i)
    /\ UNCHANGED <<chat_states, conversations, storage, save_chat_history,
                   thr, nextId, completed>>

\* where the worker is after the try/except/finally of one iteration:
\* excepted: the except block ran; raised: the callback in it raised
WorkerAfter(excepted, raised) ==
    IF ~excepted THEN "get" ELSE IF raised THEN "dead" ELSE "sleep"

\* The backend call ends with outcome; callback(result) runs in the try
\* block, callback({"error": str(e)}) in the except block.  f1 and f2 say
\* whether the ctx.reply of the first and of the second callback raises.
WorkerFinish(outcome, f1, f2) ==
    /\ worker.pc = "post"
    /\ LET req == worker.cur
           first == HandleResponse(Mem, req.sender,
                                   IF outcome = "raise" THEN "error" ELSE outcome, f1)
           again == outcome # "raise" /\ first.raised
           second == HandleResponse(first, req.sender, "error", f2)
           last == IF again THEN second ELSE first
       IN  /\ SetMem(last)
           /\ worker' = [pc |-> WorkerAfter(outcome = "raise" \/ again, last.raised),
                         cur |-> NoReq,
                         calls |-> IF again THEN 2 ELSE 1]
           /\ completed' = completed \cup {req.id}
           /\ request_queue' = DisturbQueue(request_queue, req.sender)
           /\ thr' = DisturbThreads(thr, req.sender)
    /\ UNCHANGED <<save_chat_history, nextId>>

\* time.sleep(1) of the except block is over; task_done(); next iteration
WorkerWake ==
    /\ worker.pc = "sleep"
    /\ worker' = [worker EXCEPT !.pc = "get"]
    /\ UNCHANGED <<chat_states, conversations, storage, save_chat_history,
                   request_queue, thr, nextId, completed>>

\* ------------------------------------------------------------- Spec
\* Handlers run one at a time on the dispatcher; the worker runs beside it.
Next ==
    \/ \E u \in Users, raw \in ChatInputs : Chat(Dispatcher, u, raw)
    \/ \E u \in Users, raw \in MessageInputs : Message(Dispatcher, u, raw)
    \/ \E u \in Users, raw \in AskInputs : Ask(Dispatcher, u, raw)
    \/ \E u \in Users : Reset(Dispatcher, u)
    \/ PutResume(Dispatcher)
    \/ WorkerGet
    \/ \E o \in Outcomes, f1 \in BOOLEAN, f2 \in BOOLEAN : WorkerFinish(o, f1, f2)
    \/ WorkerWake

Spec == Init /\ [][Next]_vars

\* ------------------------------------------------------------- SpecConc
\* The same handlers run by two threads of the messaging layer, one
\* statement group at a time.  A thread inside a handler keeps the handler's
\* locals (sender, content) in thr.

Inside(t, pc, sender, content, fresh) ==
    [thr EXCEPT ![t] = [pc |-> pc, sender |-> sender, content |-> content,
                        endpoint |-> "chat", fresh |-> fresh]]

\* chat() lines 80-84: the check of waiting_response
ChatCheck(t, sender, raw) ==
    /\ thr[t].pc = "idle"
    /\ IF ChatIsWaiting(sender)
       THEN UNCHANGED vars
       ELSE /\ CanSubmit
            /\ thr' = Inside(t, "chat_set", sender, raw, NoHistory(sender))
            /\ UNCHANGED <<chat_states, conversations, storage, save_chat_history,
                           request_queue, worker, nextId, completed>>

\* chat() lines 86-91: chat_mode and waiting_response are set
ChatSet(t) ==
    /\ thr[t].pc = "chat_set"
    /\ SetMem(ChatSetWaiting(Mem, thr[t].sender))
    /\ thr' = [thr EXCEPT ![t].pc = "chat_body"]
    /\ UNCHANGED <<save_chat_history, request_queue, worker, nextId, completed>>

\* chat() lines 93-104: the conversation entry, the content, the empty case
ChatBody(t) ==
    /\ thr[t].pc = "chat_body"
    /\ LET sender == thr[t].sender
           m1 == ChatEnsureConversation(Mem, sender)
           content == ChatContent(thr[t].content)
       IN  IF content = <<>>
           THEN /\ SetMem(ChatNoContent(m1, sender))
                /\ thr' = [thr EXCEPT ![t] = Idle]
           ELSE /\ SetMem(m1)
                /\ thr' = Inside(t, "append", sender, content, thr[t].fresh)
    /\ UNCHANGED <<save_chat_history, request_queue, worker, nextId, completed>>

\* process_message() lines 151-156: the checks of chat_mode and
\* waiting_response
MessageCheck(t, sender, raw) ==
    /\ thr[t].pc = "idle"
    /\ IF InChatMode(sender) /\ ~ChatIsWaiting(sender)
       THEN /\ CanSubmit
            /\ thr' = Inside(t, "append", sender, raw, FALSE)
            /\ UNCHANGED <<chat_states, conversations, storage, save_chat_history,
                           request_queue, worker, nextId, completed>>
       ELSE UNCHANGED vars

\* _handle_chat_message() lines 108-114: the user turn is appended
HcmAppend(t) ==
    /\ thr[t].pc = "append"
    /\ SetMem(AppendUserTurn(Mem, thr[t].sender, thr[t].content))
    /\ thr' = [thr EXCEPT ![t].pc = "put"]
    /\ UNCHANGED <<save_chat_history, request_queue, worker, nextId, completed>>

NextConc ==
    \/ \E t \in Threads, u \in Users, raw \in ChatInputs : ChatCheck(t, u, raw)
    \/ \E t \in Threads : ChatSet(t)
    \/ \E t \in Threads : ChatBody(t)
    \/ \E t \in Threads, u \in Users, raw \in MessageInputs : MessageCheck(t, u, raw)
    \/ \E t \in Threads : HcmAppend(t)
    \/ \E t \in Threads : PutResume(t)
    \/ WorkerGet
    \/ \E o \in Outcomes, f1 \in BOOLEAN, f2 \in BOOLEAN : WorkerFinish(o, f1, f2)
    \/ WorkerWake

SpecConc == Init /\ [][NextConc]_vars

\* ------------------------------------------------------------- SpecBot
\* create_bot(): the bot is built with cogs_enabled=False, and its
\* message_received handler gives every message that is not a command to
\* bot.ollama.chat with a callback.  The handler keeps no state of its own:
\* the cog's memory is not touched.

\* a byte sequence that is not UTF-8
Undecodable == "\\xff"

\* lxmf_message.content of an incoming message
BotInputs ==
    {<<>>, <<"hi">>, <<" ", "hi">>, <<"yo">>, <<" ">>, <<"/", "help">>,
     <<Undecodable>>}

BotDecodes(raw) == \A i \in DOMAIN raw : raw[i] # Undecodable

\* content_str = lxmf_message.content.decode("utf-8").strip()
BotContent(raw) == Strip(raw)

\* handle_message lines 211-223: the message gets as far as the submission
BotAccepts(raw) ==
    /\ raw # <<>>
    /\ BotDecodes(raw)
    /\ BotContent(raw) # <<>>
    /\ Head(BotContent(raw)) # "/"

NotUtf8 == "Error: Message content is not valid UTF-8."

\* what handle_message sends to the sender before it returns, "-" when
\* it sends nothing
BotReply(sender, raw) ==
    IF raw # <<>> /\ ~BotDecodes(raw) THEN NotUtf8 ELSE "-"

\* handle_message lines 251-255 with SYSTEM_PROMPT empty: the messages are
\* the one user turn
BotRequest(sender, content) ==
    [id |-> 0, endpoint |-> "chat", sender |-> sender, content |-> content,
     fresh |-> FALSE]

\* bot.ollama.chat(messages, callback=callback) -> _queue_request
BotQueueRequest(t, req) ==
    /\ CanSubmit
    /\ IF QueueHasRoom
       THEN /\ Enqueue(req)
            /\ thr' = [thr EXCEPT ![t] = Idle]
       ELSE /\ thr' = [thr EXCEPT ![t] = Blocked(req)]
            /\ UNCHANGED <<request_queue, nextId>>
    /\ UNCHANGED <<chat_states, conversations, storage, save_chat_history,
                   worker, completed>>

\* the message_received handler
BotMessage(t, sender, raw) ==
    /\ thr[t].pc = "idle"
    /\ IF BotAccepts(raw)
       THEN BotQueueRequest(t, BotRequest(sender, BotContent(raw)))
       ELSE UNCHANGED vars

\* the handler inside Queue.put() goes on once the queue has room
BotPutResume(t) ==
    /\ thr[t].pc = "put"
    /\ QueueHasRoom
    /\ Enqueue([id |-> 0, endpoint |-> thr[t].endpoint, sender |-> thr[t].sender,
                content |-> thr[t].content, fresh |-> thr[t].fresh])
    /\ thr' = [thr EXCEPT ![t] = Idle]
    /\ UNCHANGED <<chat_states, conversations, storage, save_chat_history,
                   worker, completed>>

\* The backend call ends with outcome and the worker calls the callback of
\* handle_message, which only sends: it raises when bot.send does (f1 for
\* the call in the try block, f2 for the call in the except block).
BotWorkerFinish(outcome, f1, f2) ==
    /\ worker.pc = "post"
    /\ LET again == outcome # "raise" /\ f1
           raised == IF again THEN f2 ELSE f1
       IN  /\ worker' = [pc |-> WorkerAfter(outcome = "raise" \/ again, raised),
                         cur |-> NoReq,
                         calls |-> IF again THEN 2 ELSE 1]
           /\ completed' = completed \cup {worker.cur.id}
    /\ UNCHANGED <<chat_states, conversations, storage, save_chat_history,
                   request_queue, thr, nextId>>

NextBot ==
    \/ \E u \in Users, raw \in BotInputs : BotMessage(Dispatcher, u, raw)
    \/ BotPutResume(Dispatcher)
    \/ WorkerGet
    \/ \E o \in Outcomes, f1 \in BOOLEAN, f2 \in BOOLEAN : BotWorkerFinish(o, f1, f2)
    \/ WorkerWake

SpecBot == Init /\ [][NextBot]_vars

\* ------------------------------------------------------------- SpecFair
\* Spec with a fairly scheduled worker thread whose backend calls end: the
\* worker takes a request when there is one, every requests.post returns,
\* raises or times out, and every sleep ends.
SpecFair ==
    /\ Init
    /\ [][Next]_vars
    /\ WF_vars(WorkerGet)
    /\ WF_vars(\E o \in Outcomes, f1 \in BOOLEAN, f2 \in BOOLEAN : WorkerFinish(o, f1, f2))
    /\ WF_vars(WorkerWake)

\* ------------------------------------------------------------- SpecApi
\* One OllamaAPI instance called by the threads of its users: generate()
\* and chat() with or without a callback.  With a callback the request goes
\* to the queue; without one the caller posts to the backend itself.

Endpoints == {"generate", "chat"}

\* the prompt of generate(), the content of the one message of chat()
ApiInputs == {<<"hi">>}

ApiRequest(endpoint, content) ==
    [id |-> 0, endpoint |-> endpoint, sender |-> "-", content |-> content,
     fresh |-> FALSE]

\* generate() lines 112-117, chat() lines 125-130: the caller is inside
\* requests.post
Posting(endpoint, content) ==
    [pc |-> "post", sender |-> "-", content |-> content, endpoint |-> endpoint,
     fresh |-> FALSE]

\* generate(prompt, callback=...) / chat(messages, callback=...)
ApiCall(t, endpoint, content, hasCallback) ==
    /\ thr[t].pc = "idle"
    /\ IF hasCallback
       THEN BotQueueRequest(t, ApiRequest(endpoint, content))
       ELSE /\ thr' = [thr EXCEPT ![t] = Posting(endpoint, content)]
            /\ UNCHANGED <<chat_states, conversations, storage, save_chat_history,
                           request_queue, worker, nextId, completed>>

\* the requests.post of a caller ends; response.json() is returned, or the
\* exception goes to the caller
ApiReturn(t) ==
    /\ thr[t].pc = "post"
    /\ thr' = [thr EXCEPT ![t] = Idle]
    /\ UNCHANGED <<chat_states, conversations, storage, save_chat_history,
                   request_queue, worker, nextId, completed>>

\* the callbacks are ones that only send, as the one of create_bot
NextApi ==
    \/ \E t \in Threads, e \in Endpoints, c \in ApiInputs, cb \in BOOLEAN :
          ApiCall(t, e, c, cb)
    \/ \E t \in Threads : ApiReturn(t)
    \/ \E t \in Threads : BotPutResume(t)
    \/ WorkerGet
    \/ \E o \in Outcomes, f1 \in BOOLEAN, f2 \in BOOLEAN : BotWorkerFinish(o, f1, f2)
    \/ WorkerWake

SpecApi == Init /\ [][NextApi]_vars

\* ------------------------------------------------------------- claims
\* chat requests of sender put in the queue whose callback has not fired
InFlightChat(sender) ==
    {request_queue[i].id : i \in {j \in DOMAIN request_queue :
        /\ request_queue[j].sender = sender
        /\ request_queue[j].endpoint = "chat"}}
    \cup (IF /\ worker.pc = "post"
             /\ worker.cur.sender = sender
             /\ worker.cur.endpoint = "chat"
          THEN {worker.cur.id}
          ELSE {})

\* C1: every user has at most one chat request that is in the queue or being
\* executed (submitted, callback not yet fired).
C1_AtMostOneInFlight ==
    \A u \in Users : Cardinality(InFlightChat(u)) <= 1

\* C2: once the worker is done with the request it took, the callback of
\* that request has been invoked exactly once.
C2_CallbackExactlyOnce ==
    (worker.pc # "post" /\ completed # {}) => worker.calls = 1

\* C3: the worker thread never terminates.
C3_WorkerNeverTerminates ==
    worker.pc # "dead"

\* C4: the queue never holds more than its capacity, and a submission on a
\* full queue returns to its caller at once: no handler ever waits in put().
C4_SubmitNeverWaits ==
    /\ Len(request_queue) <= QueueSize
    /\ \A t \in Threads : thr[t].pc # "put"

\* C5: requests are executed in the order they were enqueued: while the
\* backend call of a request is under way, every request enqueued before it
\* has had its callback finished, and every request still queued was
\* enqueued after it; the queue itself is in enqueue order.
C5_FifoExecution ==
    /\ \A i, j \in DOMAIN request_queue :
          i < j => request_queue[i].id < request_queue[j].id
    /\ worker.pc = "post" =>
          /\ \A k \in 1..(worker.cur.id - 1) : k \in completed
          /\ \A i \in DOMAIN request_queue : worker.cur.id < request_queue[i].id

\* a later request is being executed while another one waits
C5_Witness ==
    /\ worker.pc = "post"
    /\ worker.cur.id = 2
    /\ 1 \in completed
    /\ request_queue # <<>>

\* C6: when a chat request completes with a failure, the user turn it had
\* appended is gone from the history, no assistant turn is added, and
\* waiting_response is false.
C6_FailureRollsBack ==
    [][(worker.pc = "post" /\ worker.cur.endpoint = "chat") =>
          \A o \in {"raise", "error"}, f1 \in BOOLEAN, f2 \in BOOLEAN :
              WorkerFinish(o, f1, f2) =>
                  LET u == worker.cur.sender
                  IN  /\ ~chat_states'[u].waiting_response
                      /\ (u \in DOMAIN conversations /\ conversations[u] # <<>>) =>
                            /\ u \in DOMAIN conversations'
                            /\ conversations'[u] =
                                  SubSeq(conversations[u], 1, Len(conversations[u]) - 1)
      ]_vars

\* C7: a /chat turn with content c accepted for a user without history and
\* then completed with success, with nothing else done for that user in
\* between, leaves the history [user: c, assistant: r], chat_mode true and
\* waiting_response false, r being the text of the response.
C7_RoundTrip ==
    [][(worker.pc = "post" /\ worker.cur.endpoint = "chat" /\ worker.cur.fresh) =>
          \A o \in {"response", "message", "other"}, f1 \in BOOLEAN, f2 \in BOOLEAN :
              WorkerFinish(o, f1, f2) =>
                  LET u == worker.cur.sender
                      r == IF o = "other" THEN Placeholder ELSE ReplyText
                  IN  /\ u \in DOMAIN conversations'
                      /\ conversations'[u] =
                            << [role |-> "user", content |-> worker.cur.content],
                               [role |-> "assistant", content |-> r] >>
                      /\ chat_states'[u].chat_mode
                      /\ ~chat_states'[u].waiting_response
      ]_vars

\* a round trip has been made: the history of a user is one turn and its
\* answer, and nothing is pending
C7_Witness ==
    \E u \in DOMAIN conversations :
        /\ conversations[u] = << [role |-> "user", content |-> <<"hi">>],
                                 [role |-> "assistant", content |-> ReplyText] >>
        /\ chat_states[u].chat_mode
        /\ ~chat_states[u].waiting_response
        /\ chat_states[u].message_count = 1
        /\ completed = {1}

\* C8: in every history the roles alternate, user first.
C8_HistoryAlternates ==
    \A u \in DOMAIN conversations :
        \A i \in DOMAIN conversations[u] :
            conversations[u][i].role = (IF i % 2 = 1 THEN "user" ELSE "assistant")

\* C9: while waiting_response of a user is true, the reply of a /chat
\* command and of a free-form message of that user is the "still
\* processing" one, and the step of the handler changes neither the chat
\* states (chat_mode, message_count, waiting_response), nor the histories,
\* nor the queue, nor leaves a handler waiting to put.
C9_RejectedWhileWaiting ==
    /\ [](\A u \in Users :
            (u \in DOMAIN chat_states /\ chat_states[u].waiting_response) =>
                /\ \A raw \in ChatInputs : ChatReply(u, raw) = StillProcessing
                /\ MessageReply(u) = StillProcessing)
    /\ [][\A u \in Users :
            (u \in DOMAIN chat_states /\ chat_states[u].waiting_response) =>
                \A raw \in ChatInputs \cup MessageInputs :
                    (Chat(Dispatcher, u, raw) \/ Message(Dispatcher, u, raw)) =>
                        UNCHANGED <<chat_states, conversations, storage,
                                    request_queue, thr, nextId>>
       ]_vars

\* a user is waiting for a response and the dispatcher is free to run the
\* next handler for that user
C9_Witness ==
    \E u \in DOMAIN chat_states :
        /\ chat_states[u].waiting_response
        /\ chat_states[u].message_count = 1
        /\ thr[Dispatcher].pc = "idle"
        /\ Cardinality(InFlightChat(u)) = 1

\* C10: of two handler threads working for the same user, at most one is
\* past the check of waiting_response at any time.
C10_CheckAndSetAtomic ==
    \A t1, t2 \in Threads :
        (/\ t1 # t2
         /\ thr[t1].pc \in {"chat_set", "chat_body", "append", "put"}
         /\ thr[t2].pc \in {"chat_set", "chat_body", "append", "put"})
        => thr[t1].sender # thr[t2].sender

\* C11: under the message_received handler of create_bot, a sender never
\* has more than one request in the queue or being executed: a message that
\* arrives while the sender's request is pending is not enqueued, so one
\* backend call at most is pending for the sender.
C11_BotOneCallPerSender ==
    \A u \in Users : Cardinality(InFlightChat(u)) <= 1

\* the chat state of a user, the default one when the user has no entry
StateOf(cs, sender) ==
    IF sender \in DOMAIN cs THEN cs[sender] ELSE DefaultState(sender)

\* C12: a /chat command whose content is empty after the command word is
\* taken away and the rest stripped changes nothing: chat_mode,
\* message_count and waiting_response of the user, the histories and which
\* users have one, and the queue are after the command what they were
\* before it.
C12_EmptyChatChangesNothing ==
    [][\A u \in Users, raw \in ChatInputs :
          (ChatContent(raw) = <<>> /\ Chat(Dispatcher, u, raw)) =>
              /\ StateOf(chat_states', u) = StateOf(chat_states, u)
              /\ conversations' = conversations
              /\ UNCHANGED <<request_queue, nextId, thr>>
      ]_vars

\* C13: a /reset of a user that has a conversation entry takes the whole
\* history away and leaves chat_mode false, with the "has been reset"
\* reply; a /reset of a user without one changes nothing and is answered
\* by the other reply, "No active conversation to reset."; neither touches
\* another user's state or history, the queue or the worker.
C13_ResetClears ==
    [][\A u \in Users :
          Reset(Dispatcher, u) =>
              /\ IF u \in DOMAIN conversations
                 THEN /\ u \notin DOMAIN conversations'
                      /\ ~StateOf(chat_states', u).chat_mode
                      /\ ResetReply(u) = ResetDone
                 ELSE /\ UNCHANGED <<chat_states, conversations, storage>>
                      /\ ResetReply(u) = NoConversation
              /\ ResetDone # NoConversation
              /\ \A v \in Users \ {u} :
                    /\ StateOf(chat_states', v) = StateOf(chat_states, v)
                    /\ (v \in DOMAIN conversations) = (v \in DOMAIN conversations')
                    /\ v \in DOMAIN conversations =>
                          conversations'[v] = conversations[v]
              /\ UNCHANGED <<nextId, completed, worker.pc, Len(request_queue)>>
      ]_vars

\* a user whose chat turn had been accepted has been reset: the history is
\* gone and chat_mode is off
C13_Witness ==
    \E u \in DOMAIN chat_states :
        /\ chat_states[u].message_count >= 1
        /\ ~chat_states[u].chat_mode
        /\ u \notin DOMAIN conversations

\* C14: neither the /ask command nor the completion of its generate
\* request changes a history, the set of users that have one, or a chat
\* state (chat_mode, waiting_response, message_count), whatever the state
\* of the user is when the command and the completion happen.
C14_AskNoSideEffects ==
    [][/\ \A u \in Users, raw \in AskInputs :
             Ask(Dispatcher, u, raw) => UNCHANGED <<chat_states, conversations>>
       /\ (worker.pc = "post" /\ worker.cur.endpoint = "generate") =>
             \A o \in Outcomes, f1 \in BOOLEAN, f2 \in BOOLEAN :
                 WorkerFinish(o, f1, f2) => UNCHANGED <<chat_states, conversations>>
      ]_vars

\* load_states(): what the storage holds under a key, {} when never set
Stored(key) ==
    IF key \in DOMAIN storage THEN storage[key] ELSE EmptyDict

\* C15: whenever no handler is under way (every chat, free-form turn,
\* completion and reset has returned), the storage holds the chat states
\* that are in memory.  (The claim says the same of the conversations;
\* save_states() stores those only when save_chat_history is set.)
C15_WriteThrough ==
    (\A t \in Threads : thr[t].pc = "idle") => Stored("chat_states") = chat_states

\* a chat turn of sender has been accepted and its callback has not fired:
\* the request is in the queue, being executed, or its handler is in put()
PendingChat(sender) ==
    \/ InFlightChat(sender) # {}
    \/ \E t \in Threads :
          /\ thr[t].pc = "put"
          /\ thr[t].sender = sender
          /\ thr[t].endpoint = "chat"

\* C16: waiting_response of a user is true exactly when a chat request of
\* that user has been accepted and its callback has not fired yet.
C16_WaitingIffPending ==
    \A u \in Users :
        StateOf(chat_states, u).waiting_response <=> PendingChat(u)

\* C17: every request put in the queue gets its callback invoked in the
\* end: the k-th request enqueued is, some time later, among the requests
\* the worker has called back.
C17_AcceptedEventuallyCalledBack ==
    \A k \in 1..MaxReqs : (nextId >= k) ~> (k \in completed)

\* backend calls under way: the requests.post of the worker and those of
\* callers of generate() and chat()
ExecutingCalls ==
    Cardinality({t \in Threads : thr[t].pc = "post"})
    + (IF worker.pc = "post" THEN 1 ELSE 0)

\* C18: at most one backend call is under way at any time.
C18_OneBackendCall ==
    ExecutingCalls <= 1

\* _handle_chat_message line 124 gives chat() the list that
\* conversations[sender] holds, and the queue item keeps that list: what a
\* request of sender has as messages is what conversations[sender] is now.
\* (No handler of SpecConc takes an entry out of conversations.)
Payload(r) == conversations[r.sender]

\* C19: the messages the backend is given for a chat request, those that
\* requests.post serialises when the worker has taken the request, are the
\* history as it was when the request was submitted: the last of them is
\* the user turn of that request.
C19_PayloadEndsWithOwnTurn ==
    [][(worker.pc = "get" /\ request_queue # <<>>) =>
          LET r == request_queue[QueueGetIndex(request_queue)]
          IN  (WorkerGet /\ r.endpoint = "chat") =>
                  /\ Payload(r) # <<>>
                  /\ Payload(r)[Len(Payload(r))] =
                        [role |-> "user", content |-> r.content]
      ]_vars

====
